---- MODULE Spec2Model ----
(***************************************************************************)
(* Verification model of the Prospectinator backend (function_app.py):     *)
(* the token-bucket rate limiter, the semaphore-bounded row workers, the   *)
(* blank-row filter, the fallback phone resolution and the progress blob   *)
(* written by process_xlsx_v2.                                             *)
(*                                                                         *)
(* Time is the monotonic clock in whole ticks.  The bucket's float token   *)
(* count is kept exactly as the integer tokens * period, so that one tick  *)
(* refills `capacity` units and one whole token is `period` units.         *)
(***************************************************************************)
EXTENDS Integers, Sequences, FiniteSets, TLC

\* ------------------------------------------------------------------ bounds
\* TokenBucketLimiter(capacity=490, period=60.0), scaled down.
capacity == 2
period == 3
\* asyncio.Semaphore(100), scaled down.
SemaphoreSlots == 1
\* asyncio.wait_for(..., timeout=60), in ticks.
RowTimeout == 1
\* Horizon of the clock and sizes of the inputs.
MaxTime == 2
MaxBucketTime == 5
MaxRows == 2
NumCallers == 2

\* ----------------------------------------------------------- small helpers
Min(a, b) == IF a <= b THEN a ELSE b

CeilDiv(a, b) == (a + b - 1) \div b

Range(s) == {s[k] : k \in 1..Len(s)}

\* The lock is free.
NoOne == 0

\* Nothing recorded yet.
Never == <<>>

VARIABLES
    clock,      \* time.monotonic(), in ticks
    tokens,     \* rate_limiter.tokens * period
    last_time,  \* rate_limiter.last_time
    lock,       \* holder of rate_limiter.lock, or NoOne
    grants,     \* history: times of the acquire() returns of the last `period`
    drainedAt,  \* history: <<first tick at which the bucket was below one token>>, or Never
    st,         \* position of each caller / row task
    wake,       \* tick at which a sleeping caller's asyncio.sleep(wait) is over
    sem,        \* semaphore._value: free concurrency slots
    deadline,   \* tick at which a row's asyncio.wait_for gives up
    sheet,      \* the uploaded DataFrame: one record per row
    colsOK,     \* company, orgnr and person columns were all found
    pc,         \* position of process_xlsx_v2
    rows,       \* the working set: positions of the selected rows, in order
    outcome,    \* history: how each row's lookup ended
    taskResult, \* value returned by each finished process_row task
    completed,  \* finished tasks not yet handed out by asyncio.as_completed
    results,    \* the results dict: index -> <<num, src>>
    progress,   \* the progress blob, or Absent
    published,  \* history: every snapshot uploaded by this run, in order
    resultsBlob, \* the annotated rows of the uploaded results blob, or Absent
    calls,      \* history: POSTs to the lookup service started for each row
    took,       \* history: rate-limiter tokens consumed by each row's worker
    answer,     \* the text handed to extract_phone
    extracted   \* what extract_phone returned for it, or Unset

bucketVars == <<clock, tokens, last_time, lock, grants, drainedAt>>
runVars == <<sheet, colsOK, pc, rows, results, progress, published, resultsBlob>>
taskVars == <<sem, deadline, outcome, taskResult, completed>>
obsVars == <<calls, took, answer, extracted>>
vars == <<clock, tokens, last_time, lock, grants, drainedAt, st, wake,
          sem, deadline, sheet, colsOK, pc, rows, outcome, taskResult,
          completed, results, progress, published, resultsBlob, calls, took,
          answer, extracted>>

Callers == 1..NumCallers

\* ------------------------------------------------------ TokenBucketLimiter
\* __init__: tokens = capacity, last_time = time.monotonic(), lock free.
BucketInit ==
    /\ clock = 0
    /\ tokens = capacity * period
    /\ last_time = 0
    /\ lock = NoOne
    /\ grants = <<>>
    /\ drainedAt = Never

\* tokens = min(capacity, tokens + delta * fill_rate), in units of 1/period.
Refill(t, delta) == Min(capacity * period, t + delta * capacity)

\* Mutant of HasToken: `if self.tokens > 0`.
HasTokenLax(t) == t > 0

\* if self.tokens >= 1
HasToken(t) == t >= period

\* Mutant of Consume: the decrement is forgotten.
ConsumeNothing(t) == t

\* self.tokens -= 1
Consume(t) == t - period

\* wait = (1 - tokens) / fill_rate, rounded up to the tick at which
\* asyncio.sleep(wait) has elapsed.
WaitTicks(t) == CeilDiv(period - t, capacity)

\* The grant times that still lie in the window (now - period, now].
Recent(g, now) == SelectSeq(g, LAMBDA x : x > now - period)

\* Mutant of LockIsFree: the lock lets everyone in.
LockNeverHeld(l) == TRUE

\* asyncio.Lock: acquire() goes through only while nobody holds the lock.
LockIsFree(l) == l = NoOne

\* `async with self.lock`: enter the critical section when the lock is free.
AcqLock(i) ==
    /\ st[i] = "acquiring"
    /\ LockIsFree(lock)
    /\ lock' = i
    /\ st' = [st EXCEPT ![i] = "critical"]
    /\ UNCHANGED <<clock, tokens, last_time, grants, drainedAt, wake>>
    /\ UNCHANGED <<runVars, taskVars, obsVars>>

\* Lines 36-44 and the lock release: refill, then either consume one token
\* and return, or compute the wait and go to sleep outside the lock.
AcqStep(i) ==
    /\ st[i] = "critical"
    /\ lock = i
    /\ LET t == Refill(tokens, clock - last_time) IN
         /\ last_time' = clock
         /\ lock' = NoOne
         /\ IF HasToken(t)
              THEN /\ tokens' = Consume(t)
                   /\ st' = [st EXCEPT ![i] = "posting"]
                   /\ wake' = wake
              ELSE /\ tokens' = t
                   /\ st' = [st EXCEPT ![i] = "sleeping"]
                   /\ wake' = [wake EXCEPT ![i] = clock + WaitTicks(t)]
    /\ UNCHANGED <<clock, runVars, taskVars, answer, extracted>>

\* What a step did, read off the step itself: a worker that arrives at
\* client.post (line 127) has started a call, and the holder of the lock that
\* leaves the critical section with fewer tokens than the refilled level has
\* consumed one.
Observe ==
    /\ calls' = [i \in DOMAIN st |->
                    IF st[i] # "posting" /\ st'[i] = "posting"
                      THEN calls[i] + 1 ELSE calls[i]]
    /\ took' = [i \in DOMAIN st |->
                   IF lock = i /\ lock' # i
                      /\ tokens' < Min(capacity * period,
                                       tokens + (clock - last_time) * capacity)
                     THEN took[i] + 1 ELSE took[i]]

\* The acquire step inside a run; the grant history is not kept there.
AcqCheck(i) == AcqStep(i) /\ Observe /\ UNCHANGED <<grants, drainedAt>>

\* asyncio.sleep(wait) is over: `return await self.acquire()` starts again.
AcqRetry(i) ==
    /\ st[i] = "sleeping"
    /\ clock >= wake[i]
    /\ st' = [st EXCEPT ![i] = "acquiring"]
    /\ wake' = [wake EXCEPT ![i] = 0]
    /\ UNCHANGED <<bucketVars, runVars, taskVars, obsVars>>

\* ------------------------------------------------- Python strings and cells
\* A str is a sequence of one-character strings.  A spreadsheet cell read by
\* pandas is a str, an integer-valued number, or NaN (an empty cell).
None == <<"<None>">>

StrCell(s) == [t |-> "str", s |-> s, v |-> 0]
NumCell(v) == [t |-> "num", s |-> <<>>, v |-> v]
NaNCell == [t |-> "nan", s |-> <<>>, v |-> 0]

DigitChars == <<"0", "1", "2", "3", "4", "5", "6", "7", "8", "9">>

IsDigit(c) == \E d \in 1..10 : DigitChars[d] = c

AllDigits(s) == \A k \in 1..Len(s) : IsDigit(s[k])

\* str(n) of a non-negative int.
RECURSIVE ToStr(_)
ToStr(n) ==
    IF n < 10 THEN <<DigitChars[n + 1]>>
    ELSE Append(ToStr(n \div 10), DigitChars[(n % 10) + 1])

\* str.strip()
RECURSIVE LStrip(_)
LStrip(s) == IF s # <<>> /\ Head(s) = " " THEN LStrip(Tail(s)) ELSE s

RECURSIVE RStrip(_)
RStrip(s) ==
    IF s # <<>> /\ s[Len(s)] = " " THEN RStrip(SubSeq(s, 1, Len(s) - 1)) ELSE s

Strip(s) == RStrip(LStrip(s))

LowerChar(c) ==
    CASE c = "N" -> "n" [] c = "A" -> "a" [] c = "I" -> "i" [] c = "F" -> "f"
      [] OTHER -> c

Lower(s) == [k \in 1..Len(s) |-> LowerChar(s[k])]

RECURSIVE StripZeros(_)
StripZeros(s) == IF s # <<>> /\ Head(s) = "0" THEN StripZeros(Tail(s)) ELSE s

\* Position of the first "." of s, or 0.
DotAt(s) ==
    IF \E k \in 1..Len(s) : s[k] = "."
      THEN CHOOSE k \in 1..Len(s) : s[k] = "." /\ \A j \in 1..(k - 1) : s[j] # "."
      ELSE 0

\* float(s) for a str without exponent or underscore: surrounding blanks are
\* dropped, then an optional sign, then nan / inf / infinity in any case or
\* digits with at most one "." and at least one digit.
ParseFloat(s) ==
    LET b == Strip(s)
        signed == b # <<>> /\ Head(b) \in {"-", "+"}
        body == IF signed THEN Tail(b) ELSE b
        d == DotAt(body)
        ip == IF d = 0 THEN body ELSE SubSeq(body, 1, d - 1)
        fp == IF d = 0 THEN <<>> ELSE SubSeq(body, d + 1, Len(body))
    IN  IF Lower(body) \in {<<"n", "a", "n">>, <<"i", "n", "f">>,
                            <<"i", "n", "f", "i", "n", "i", "t", "y">>}
          THEN [ok |-> TRUE, finite |-> FALSE, neg |-> FALSE, ip |-> <<>>]
        ELSE IF AllDigits(ip) /\ AllDigits(fp) /\ Len(ip) + Len(fp) >= 1
          THEN [ok |-> TRUE, finite |-> TRUE,
                neg |-> (signed /\ Head(b) = "-"), ip |-> ip]
        ELSE [ok |-> FALSE, finite |-> FALSE, neg |-> FALSE, ip |-> <<>>]

\* str(int(x)) of a parsed finite float: truncation toward zero.
IntStr(p) ==
    LET d == StripZeros(p.ip)
    IN  IF d = <<>> THEN <<"0">>
        ELSE IF p.neg THEN <<"-">> \o d ELSE d

\* normalize_phone
normalize_phone(phone) ==
    IF phone = None \/ phone = <<>> THEN <<>>
    ELSE LET s == Strip(phone)
             p == ParseFloat(s)
         IN  IF p.ok /\ p.finite THEN IntStr(p) ELSE s

\* process_row, lines 186-190: try str(int(float(fb))) except str(fb).strip().
\* int(nan) raises, so an empty cell becomes the text "nan".
FallbackNum(fb) ==
    CASE fb.t = "num" -> ToStr(fb.v)
      [] fb.t = "nan" -> <<"n", "a", "n">>
      [] OTHER -> LET p == ParseFloat(fb.s)
                  IN  IF p.ok /\ p.finite THEN IntStr(p) ELSE Strip(fb.s)

\* ------------------------------------------------------------ extract_phone
\* PHONE_RE = (?:0047|\+47)?\D*(\d{8})\b   (line 75)
PhoneDigits == 8

WordChars ==
    Range(DigitChars) \cup
    {"a","b","c","d","e","f","g","h","i","j","k","l","m",
     "n","o","p","q","r","s","t","u","v","w","x","y","z",
     "A","B","C","D","E","F","G","H","I","J","K","L","M",
     "N","O","P","Q","R","S","T","U","V","W","X","Y","Z","_"}

\* \D* is greedy and is followed by \d: it ends at the first digit at or
\* after q (or past the end of the text).
RECURSIVE SkipNonDigits(_, _)
SkipNonDigits(s, q) ==
    IF q <= Len(s) /\ ~IsDigit(s[q]) THEN SkipNonDigits(s, q + 1) ELSE q

\* Mutant of DigitsAt: the pattern without its closing \b.
DigitsAtNoBoundary(s, r) ==
    /\ r + PhoneDigits - 1 <= Len(s)
    /\ \A k \in r..(r + PhoneDigits - 1) : IsDigit(s[k])

\* (\d{8})\b at r: eight digits, then the end of the text or a character
\* that is not a word character.
DigitsAt(s, r) ==
    /\ r + PhoneDigits - 1 <= Len(s)
    /\ \A k \in r..(r + PhoneDigits - 1) : IsDigit(s[k])
    /\ r + PhoneDigits > Len(s) \/ s[r + PhoneDigits] \notin WordChars

NoMatch == <<>>

\* \D*(\d{8})\b tried at q; the match holds group 1.
MatchFrom(s, q) ==
    LET r == SkipNonDigits(s, q) IN
    IF DigitsAt(s, r) THEN <<SubSeq(s, r, r + PhoneDigits - 1)>> ELSE NoMatch

HasPrefixAt(s, p, pre) ==
    /\ p + Len(pre) - 1 <= Len(s)
    /\ SubSeq(s, p, p + Len(pre) - 1) = pre

\* The whole pattern tried at p: the prefix alternatives in their order,
\* then, on backtracking, no prefix.
MatchAt(s, p) ==
    LET p1 == <<"0", "0", "4", "7">>
        p2 == <<"+", "4", "7">>
        m1 == IF HasPrefixAt(s, p, p1) THEN MatchFrom(s, p + Len(p1)) ELSE NoMatch
        m2 == IF HasPrefixAt(s, p, p2) THEN MatchFrom(s, p + Len(p2)) ELSE NoMatch
    IN  IF m1 # NoMatch THEN m1
        ELSE IF m2 # NoMatch THEN m2
        ELSE MatchFrom(s, p)

\* PHONE_RE.search: the leftmost position at which the pattern matches.
RECURSIVE Search(_, _)
Search(s, p) ==
    IF p > Len(s) THEN NoMatch
    ELSE IF MatchAt(s, p) # NoMatch THEN MatchAt(s, p)
    ELSE Search(s, p + 1)

extract_phone(text) ==
    IF text = None \/ text = <<>> THEN None
    ELSE LET m == Search(text, 1) IN
         IF m # NoMatch THEN m[1] ELSE None

NoSource == "Ingen kilde"

\* The 0-based DataFrame index of the record at position k of the sheet.
IndexOf(k) == k - 1

\* process_row, lines 185-193: the value returned for the record at
\* position k with fallback cell fb, after the lookup gave (num, src).
ProcessRowResult(k, fb, num, src) ==
    IF num = None \/ num = <<>>
      THEN <<IndexOf(k), normalize_phone(FallbackNum(fb)), NoSource>>
      ELSE <<IndexOf(k), normalize_phone(num), src>>

\* ------------------------------------------------------ async_ask_perplexity
\* What the lookup service may answer.  "error" stands for a transport
\* error, a non-2xx status or the client's own timeout (lines 137-139).
SomePhone == <<"9", "1", "2", "3", "4", "5", "6", "7">>
SomeUrl == "https://kilde"

Responses ==
    {[status |-> "error", body |-> "none", number |-> None, url |-> ""]}
    \cup {[status |-> "ok", body |-> b, number |-> None, url |-> ""] :
             b \in {"not_json", "choices_empty"}}
    \cup {[status |-> "ok", body |-> "answer", number |-> n, url |-> u] :
             n \in {None, SomePhone}, u \in {"", SomeUrl}}

\* Lines 142-143 raise on a body that is not JSON (resp.json()) or whose
\* choices list is empty ([][0]); nothing catches it.
ParseRaises(resp) == resp.status = "ok" /\ resp.body \in {"not_json", "choices_empty"}

\* Lines 137-166 for a response that does not raise: (number, src).
AskResult(resp) ==
    IF resp.status = "error" THEN <<None, "">>
    ELSE IF resp.number # None /\ resp.url = "" THEN <<resp.number, NoSource>>
    ELSE <<resp.number, resp.url>>

\* ------------------------------------------------------------- row selector
\* `if empty >= 3: break`
EmptyStop == 3

\* Mutant of IsBlank: the company cell alone decides.
IsBlankCompanyOnly(rec) == ~rec.comp

\* pd.isna(row.get(comp_col)) and pd.isna(row.get(pers_col))
IsBlank(rec) == ~rec.comp /\ ~rec.pers

\* Lines 224-232 from position k on, with `empty` blank rows in a row behind
\* it and `acc` the rows appended so far.  A blank row is counted and never
\* appended; the scan breaks at the third blank row in a row.
RECURSIVE Scan(_, _, _, _)
Scan(sh, k, empty, acc) ==
    IF k > Len(sh) THEN acc
    ELSE IF IsBlank(sh[k])
      THEN IF empty + 1 >= EmptyStop THEN acc ELSE Scan(sh, k + 1, empty + 1, acc)
      ELSE Scan(sh, k + 1, 0, Append(acc, k))

\* Mutant of SelectRows: blank rows are appended like any other row.
RECURSIVE ScanKeepingBlanks(_, _, _, _)
ScanKeepingBlanks(sh, k, empty, acc) ==
    IF k > Len(sh) THEN acc
    ELSE IF IsBlank(sh[k])
      THEN IF empty + 1 >= EmptyStop THEN Append(acc, k)
           ELSE ScanKeepingBlanks(sh, k + 1, empty + 1, Append(acc, k))
      ELSE ScanKeepingBlanks(sh, k + 1, 0, Append(acc, k))

SelectRowsKeepingBlanks(sh) == ScanKeepingBlanks(sh, 1, 0, <<>>)

SelectRows(sh) == Scan(sh, 1, 0, <<>>)

\* ------------------------------------------------------------ progress blob
\* A blob is the empty sequence while it does not exist, and else the
\* one-element sequence of its content.
Absent == <<>>

Blob(content) == <<content>>

\* round(done / total * 100, 2) in hundredths of a percent, ties to even.
Percentage(done, total) ==
    LET q == (done * 10000) \div total
        r == (done * 10000) % total
    IN  IF 2 * r > total \/ (2 * r = total /\ q % 2 = 1) THEN q + 1 ELSE q

\* Lines 244-249: the first snapshot carries the literal percentage 0.
InitialSnapshot(total) == [processed |-> 0, total |-> total, percentage |-> 0]

\* Mutant of DoneCount: the highest index stored so far, plus one.
DoneCountByIndex(res) ==
    (CHOOSE m \in DOMAIN res : \A j \in DOMAIN res : j <= m) + 1

\* done = len(results)
DoneCount(res) == Cardinality(DOMAIN res)

\* Lines 259-264.
Snapshot(res, total) ==
    [processed |-> DoneCount(res), total |-> total,
     percentage |-> Percentage(DoneCount(res), total)]

\* results[idx] = (num, src)
Store(res, r) ==
    [j \in DOMAIN res \cup {r[1]} |-> IF j = r[1] THEN <<r[2], r[3]>> ELSE res[j]]

\* ---------------------------------------------------------------- semaphore
\* Mutant of SemRelease: leaving the `async with` gives no slot back.
SemReleaseNothing(v) == v

\* Mutant of SemCanAcquire: the semaphore never blocks.
SemAlwaysFree(v) == TRUE

SemCanAcquire(v) == v > 0
SemAcquire(v) == v - 1
SemRelease(v) == v + 1

Calling == {"acquiring", "critical", "sleeping", "posting"}

\* ---------------------------------------------------------- process_xlsx_v2
\* Lines 200-254, up to the first await.  A missing column raises before
\* anything is written.  With an empty working set the loop at 255 never
\* awaits, so the handler runs through to the upload of the results blob.
\* Mutant of StartFailed: the initial progress blob is written before the
\* columns are checked.
StartFailedAfterSnapshot ==
    /\ pc' = "failed"
    /\ progress' = Blob(InitialSnapshot(0))
    /\ published' = <<InitialSnapshot(0)>>
    /\ UNCHANGED <<rows, resultsBlob, st>>

\* Lines 215-216: `if not all([comp_col, orgnr_col, pers_col]): raise
\* ValueError(...)`, before the rows are read and before any blob is touched.
StartFailed ==
    /\ pc' = "failed"
    /\ UNCHANGED <<rows, progress, published, resultsBlob, st>>

Start ==
    /\ pc = "idle"
    /\ IF ~colsOK
         THEN StartFailed
         ELSE LET sel == SelectRows(sheet) IN
              /\ rows' = sel
              /\ progress' = Blob(InitialSnapshot(Len(sel)))
              /\ published' = <<InitialSnapshot(Len(sel))>>
              /\ st' = [k \in DOMAIN st |->
                          IF k \in Range(sel) THEN "pending" ELSE st[k]]
              /\ IF sel = <<>>
                   THEN pc' = "done" /\ resultsBlob' = Blob(results)
                   ELSE pc' = "collecting" /\ resultsBlob' = resultsBlob
    /\ UNCHANGED <<bucketVars, wake, taskVars, obsVars, sheet, colsOK, results>>

\* `async with semaphore`, then asyncio.wait_for(..., timeout=60) starts
\* async_ask_perplexity, whose first step is rate_limiter.acquire().
Enter(i) ==
    /\ st[i] = "pending"
    /\ SemCanAcquire(sem)
    /\ sem' = SemAcquire(sem)
    /\ st' = [st EXCEPT ![i] = "acquiring"]
    /\ deadline' = [deadline EXCEPT ![i] = clock + RowTimeout]
    /\ UNCHANGED <<bucketVars, wake, runVars, obsVars, outcome, taskResult,
                   completed>>

\* The POST ends with `resp`.  Either the parsing raises out of process_row
\* (the semaphore's `async with` still releases the slot), or the row is
\* resolved and the task returns.
Respond(i, resp) ==
    /\ st[i] = "posting"
    /\ sem' = SemRelease(sem)
    /\ completed' = Append(completed, i)
    /\ IF ParseRaises(resp)
         THEN /\ st' = [st EXCEPT ![i] = "raised"]
              /\ outcome' = [outcome EXCEPT ![i] = "raised"]
              /\ taskResult' = taskResult
         ELSE LET r == AskResult(resp) IN
              /\ st' = [st EXCEPT ![i] = "finished"]
              /\ outcome' = [outcome EXCEPT ![i] =
                     IF resp.status = "error" THEN "failed"
                     ELSE IF r[1] = None THEN "absent" ELSE "found"]
              /\ taskResult' = [taskResult EXCEPT ![i] =
                     ProcessRowResult(i, sheet[i].fb, r[1], r[2])]
    /\ deadline' = [deadline EXCEPT ![i] = 0]
    /\ UNCHANGED <<bucketVars, wake, runVars, obsVars>>

\* Mutant of Cancellable: the cancellation may also land between the lines
\* of the limiter's `async with self.lock` body.
CancellableAnywhere == {"acquiring", "critical", "sleeping", "posting"}

\* Where wait_for's cancellation can land: at an await of the lookup, that
\* is waiting for the lock (line 35), sleeping for a refill (line 46) or
\* waiting for the response (line 127).  Lines 36-44 hold no await.
Cancellable == {"acquiring", "sleeping", "posting"}

\* asyncio.TimeoutError: wait_for cancels the lookup at an await (waiting for
\* the lock, sleeping for a refill, or waiting for the response); the row
\* continues with num, src = None, "".
Timeout(i) ==
    /\ st[i] \in Cancellable
    /\ clock >= deadline[i]
    /\ sem' = SemRelease(sem)
    /\ completed' = Append(completed, i)
    /\ st' = [st EXCEPT ![i] = "finished"]
    /\ outcome' = [outcome EXCEPT ![i] = "timedout"]
    /\ taskResult' = [taskResult EXCEPT ![i] =
           ProcessRowResult(i, sheet[i].fb, None, "")]
    /\ deadline' = [deadline EXCEPT ![i] = 0]
    /\ wake' = [wake EXCEPT ![i] = 0]
    /\ UNCHANGED <<bucketVars, runVars, obsVars>>

\* Mutant of LoopDone: the code after the loop runs inside it.
LoopDoneAtOnce(pub, rws) == TRUE

\* The as_completed loop (line 255) is exhausted once every task has been
\* awaited: the snapshots uploaded so far, the initial one included, are as
\* many as the rows, and the one uploaded now is the last.
LoopDone(pub, rws) == Len(pub) = Len(rws)

\* One turn of `for coro in asyncio.as_completed(tasks)`: the next finished
\* task is awaited.  Its exception, if any, leaves the handler.  Otherwise
\* the result is stored and a snapshot uploaded; after the last task the
\* handler runs on, without awaiting, to the upload of the results blob.
Collect ==
    /\ pc = "collecting"
    /\ completed # <<>>
    /\ completed' = Tail(completed)
    /\ LET i == Head(completed) IN
       IF st[i] = "raised"
         THEN /\ pc' = "aborted"
              /\ UNCHANGED <<results, progress, published, resultsBlob>>
         ELSE LET res == Store(results, taskResult[i]) IN
              /\ results' = res
              /\ progress' = Blob(Snapshot(res, Len(rows)))
              /\ published' = Append(published, Snapshot(res, Len(rows)))
              /\ IF LoopDone(published, rows)
                   THEN pc' = "done" /\ resultsBlob' = Blob(res)
                   ELSE pc' = pc /\ resultsBlob' = resultsBlob
    /\ UNCHANGED <<obsVars, bucketVars, st, wake, sem, deadline, outcome, taskResult,
                   sheet, colsOK, rows>>

\* Time passes.
TickTo(max) ==
    /\ clock < max
    /\ clock' = clock + 1
    /\ grants' = Recent(grants, clock + 1)
    /\ UNCHANGED <<tokens, last_time, lock, drainedAt, st, wake, runVars, taskVars,
                   obsVars>>

\* Inside a run the clock is counted from the tick at which the blob
\* trigger fires.
Tick == pc # "idle" /\ TickTo(MaxTime)

\* ------------------------------------------------------------ specification
Present == <<"9", "1", "2", "3", "4", "5", "6", "7">>

\* A filled row with a phone in the fallback column, and a blank row.
RowKinds ==
    {[comp |-> TRUE, pers |-> TRUE, fb |-> StrCell(Present)],
     [comp |-> FALSE, pers |-> FALSE, fb |-> NaNCell]}

SheetsUpTo(n, kinds) == UNION {[1..m -> kinds] : m \in 0..n}

\* The limiter is a module-level singleton: a run finds it either untouched
\* (full) or just emptied by the rows of an earlier run.  `others` workers
\* of a second run in the same process, already created by that run and
\* waiting for a slot, stand after the run's own rows.
RunInitWith(sheets, others) ==
    /\ clock = 0
    /\ last_time = 0
    /\ tokens \in {0, capacity * period}
    /\ lock = NoOne
    /\ grants = <<>>
    /\ drainedAt = Never
    /\ sheet \in sheets
    /\ colsOK \in BOOLEAN
    /\ st = [k \in 1..(Len(sheet) + others) |->
                IF k <= Len(sheet) THEN "none" ELSE "pending"]
    /\ wake = [k \in 1..(Len(sheet) + others) |-> 0]
    /\ deadline = [k \in 1..(Len(sheet) + others) |-> 0]
    /\ outcome = [k \in 1..(Len(sheet) + others) |-> "none"]
    /\ taskResult = [k \in 1..(Len(sheet) + others) |-> None]
    /\ sem = SemaphoreSlots
    /\ pc = "idle"
    /\ rows = <<>>
    /\ completed = <<>>
    /\ results = <<>>
    /\ progress = Absent
    /\ published = <<>>
    /\ resultsBlob = Absent
    /\ calls = [k \in 1..(Len(sheet) + others) |-> 0]
    /\ took = [k \in 1..(Len(sheet) + others) |-> 0]

RunInit(sheets) == RunInitWith(sheets, 0)

\* Outside the extraction specification no text is under extraction.
NoAnswer == answer = <<>> /\ extracted = <<>>

Init == RunInit(SheetsUpTo(MaxRows, RowKinds)) /\ NoAnswer

Next ==
    \/ Start
    \/ Collect
    \/ Tick
    \/ \E i \in DOMAIN st : Enter(i)
    \/ \E i \in DOMAIN st : AcqLock(i)
    \/ \E i \in DOMAIN st : AcqCheck(i)
    \/ \E i \in DOMAIN st : AcqRetry(i)
    \/ \E i \in DOMAIN st : \E resp \in Responses : Respond(i, resp)
    \/ \E i \in DOMAIN st : Timeout(i)

Spec == Init /\ [][Next]_vars

\* --------------------------------------------- the limiter under any callers
\* rate_limiter lives as long as the process: acquire() is called by the rows
\* of every run.  Here each caller calls it again and again, at any time.
BucketSpecInit ==
    /\ BucketInit
    /\ st = [i \in Callers |-> "idle"]
    /\ wake = [i \in Callers |-> 0]
    /\ deadline = [i \in Callers |-> 0]
    /\ outcome = [i \in Callers |-> "none"]
    /\ taskResult = [i \in Callers |-> None]
    /\ sem = SemaphoreSlots
    /\ sheet = <<>>
    /\ colsOK = TRUE
    /\ pc = "idle"
    /\ rows = <<>>
    /\ completed = <<>>
    /\ results = <<>>
    /\ progress = Absent
    /\ published = <<>>
    /\ resultsBlob = Absent
    /\ calls = [i \in Callers |-> 0]
    /\ took = [i \in Callers |-> 0]
    /\ NoAnswer

\* A caller reaches `await rate_limiter.acquire()`.
CallerStart(i) ==
    /\ st[i] = "idle"
    /\ st' = [st EXCEPT ![i] = "acquiring"]
    /\ UNCHANGED <<bucketVars, wake, runVars, taskVars, obsVars>>

\* The acquire step, with the history of grants kept.
BucketAcq(i) ==
    /\ AcqStep(i)
    /\ grants' = IF st'[i] = "posting"
                   THEN Append(Recent(grants, clock), clock) ELSE grants
    /\ drainedAt' = IF drainedAt = Never /\ ~HasToken(tokens')
                      THEN <<clock>> ELSE drainedAt
    /\ UNCHANGED <<calls, took>>

\* acquire() has returned; the caller goes on and may come back.
CallerReturn(i) ==
    /\ st[i] = "posting"
    /\ st' = [st EXCEPT ![i] = "idle"]
    /\ UNCHANGED <<bucketVars, wake, runVars, taskVars, obsVars>>

\* The caller's wait_for cancels acquire() while it waits for the lock or
\* sleeps for a refill.
CallerCancel(i) ==
    /\ st[i] \in {"acquiring", "sleeping"}
    /\ st' = [st EXCEPT ![i] = "idle"]
    /\ wake' = [wake EXCEPT ![i] = 0]
    /\ UNCHANGED <<bucketVars, runVars, taskVars, obsVars>>

BucketTick == TickTo(MaxBucketTime)

BucketNext ==
    \/ BucketTick
    \/ \E i \in Callers : CallerStart(i)
    \/ \E i \in Callers : AcqLock(i)
    \/ \E i \in Callers : BucketAcq(i)
    \/ \E i \in Callers : AcqRetry(i)
    \/ \E i \in Callers : CallerReturn(i)
    \/ \E i \in Callers : CallerCancel(i)

SpecBucket == BucketSpecInit /\ [][BucketNext]_vars

\* ------------------------------------------------- the row selector alone
MaxSheetLen == 6

\* Every combination of a present or missing company and person field.
SelectKinds ==
    {[comp |-> c, pers |-> q, fb |-> NaNCell] : c \in BOOLEAN, q \in BOOLEAN}

SelectInit == RunInit(SheetsUpTo(MaxSheetLen, SelectKinds)) /\ NoAnswer

SelectNext == Start

SpecSelect == SelectInit /\ [][SelectNext]_vars

\* --------------------------------------------- one row, any fallback cell
MaxLen == 2

FbAlphabet == {"0", "1", "-", ".", " ", "n", "a"}

StringsUpTo(n, alphabet) == UNION {[1..m -> alphabet] : m \in 0..n}

Header ==
    <<"P", "r", "o", "f", "f", " ", "T", "e", "l", "e", "f", "o", "n">>

NanText == <<"n", "a", "n">>

\* What the fallback column may hold: short texts, the samples of the
\* documentation, a number, and the NaN of an empty cell.
FallbackCells ==
    {StrCell(x) : x \in StringsUpTo(MaxLen, FbAlphabet) \cup {Present, NanText, Header}}
    \cup {NumCell(91234567), NaNCell}

FallbackInit ==
    /\ RunInit({<<[comp |-> TRUE, pers |-> TRUE, fb |-> c]>> :
                    c \in FallbackCells})
    /\ NoAnswer

SpecFallback == FallbackInit /\ [][Next]_vars

\* ------------------------------------------------ extract_phone on its own
\* Texts a first answer line can hold: a lead, a number or none, a tail.
Leads ==
    {<<>>,
     <<"t", "l", "f", " ">>,
     <<"+", "4", "7">>,
     <<"+", "4", "7", " ">>,
     <<"0", "0", "4", "7">>,
     <<"0", "0", "4", "7", "-">>,
     <<"4", "7">>}

Bodies ==
    {<<"9", "1", "2", "3", "4", "5", "6", "7">>,
     <<"9", "1", " ", "2", "3", " ", "4", "5", " ", "6", "7">>,
     <<"9", "1", "2", " ", "3", "4", " ", "5", "6", "7">>,
     <<"9", "1", "2", "3", "4", "5", "6">>,
     <<"9", "1", "2", "3", "4", "5", "6", "7", "8">>,
     <<"c", "a", "l", "l", " ", "m", "e">>}

Tails ==
    {<<>>,
     <<" ">>,
     <<".">>,
     <<"a">>,
     <<"_">>}

AnswerLines ==
    {None, <<>>} \cup {l \o b \o t : l \in Leads, b \in Bodies, t \in Tails}

ExtractInit ==
    /\ RunInit({<<>>})
    /\ colsOK
    /\ tokens = capacity * period
    /\ answer \in AnswerLines
    /\ extracted = <<>>

\* number = extract_phone(lines[0])   (line 147)
Extract ==
    /\ extracted = <<>>
    /\ extracted' = <<extract_phone(answer)>>
    /\ UNCHANGED <<bucketVars, st, wake, taskVars, runVars, calls, took, answer>>

SpecExtract == ExtractInit /\ [][Extract]_vars

\* ------------------------------------------------ two runs in one process
\* A second invocation of process_xlsx_v2 for another blob runs on the same
\* event loop and module: it shares rate_limiter (line 49) and semaphore
\* (line 79).  Of that run only its workers are modelled; its sheet, progress
\* and results live under another name.
TwoRunRows == 1
OtherRows == 1

Own == 1..Len(sheet)
Others == DOMAIN st \ Own

TwoRunsInit ==
    /\ RunInitWith({sh \in SheetsUpTo(TwoRunRows, RowKinds) : Len(sh) = TwoRunRows},
                   OtherRows)
    /\ NoAnswer

\* A worker of the other run leaves process_row: its call has ended, or its
\* wait_for has cut it; `async with semaphore` gives the slot back.
OtherLeave(j) ==
    /\ \/ st[j] = "posting"
       \/ st[j] \in Cancellable /\ clock >= deadline[j]
    /\ sem' = SemRelease(sem)
    /\ st' = [st EXCEPT ![j] = "finished"]
    /\ deadline' = [deadline EXCEPT ![j] = 0]
    /\ wake' = [wake EXCEPT ![j] = 0]
    /\ UNCHANGED <<bucketVars, runVars, obsVars, outcome, taskResult, completed>>

TwoRunsNext ==
    \/ Start
    \/ Collect
    \/ Tick
    \/ \E i \in DOMAIN st : Enter(i)
    \/ \E i \in DOMAIN st : AcqLock(i)
    \/ \E i \in DOMAIN st : AcqCheck(i)
    \/ \E i \in DOMAIN st : AcqRetry(i)
    \/ \E i \in Own : \E resp \in Responses : Respond(i, resp)
    \/ \E i \in Own : Timeout(i)
    \/ \E j \in Others : OtherLeave(j)

SpecTwoRuns == TwoRunsInit /\ [][TwoRunsNext]_vars

\* ------------------------------------------- the same name uploaded again
UploadRows == 1

UploadInit == RunInit(SheetsUpTo(UploadRows, RowKinds)) /\ NoAnswer

\* UploadTest, lines 310-333, for a file name whose earlier run has ended:
\* the blob in "uploads" is overwritten, which triggers process_xlsx_v2
\* anew, and the old <stem>_processed.xlsx is deleted from "results".  The
\* blob <stem>_progress.json is not touched.  The new invocation starts with
\* fresh locals; the limiter and the semaphore are those of the process.
Upload ==
    /\ pc \in {"done", "aborted", "failed"}
    /\ \A i \in DOMAIN st : st[i] \in {"none", "finished", "raised"}
    /\ pc' = "idle"
    /\ resultsBlob' = Absent
    /\ rows' = <<>>
    /\ results' = <<>>
    /\ published' = <<>>
    /\ completed' = <<>>
    /\ st' = [i \in DOMAIN st |-> "none"]
    /\ outcome' = [i \in DOMAIN st |-> "none"]
    /\ taskResult' = [i \in DOMAIN st |-> None]
    /\ calls' = [i \in DOMAIN st |-> 0]
    /\ took' = [i \in DOMAIN st |-> 0]
    /\ UNCHANGED <<bucketVars, wake, sem, deadline, sheet, colsOK, progress,
                   answer, extracted>>

UploadNext == Next \/ Upload

SpecUpload == UploadInit /\ [][UploadNext]_vars

\* ------------------------------------------------------------------- claims
\* C1: the bucket always holds between 0 and `capacity` tokens; a step lowers
\* the tokens only if it is the step by which one caller's acquire() returns,
\* it then lowers them by exactly one token from the refilled level, which
\* was at least one token; every caller still inside acquire() is untouched
\* by that step, so it has consumed nothing.
C1_TokensBounded ==
    /\ [](0 <= tokens /\ tokens <= capacity * period)
    /\ [][tokens' < tokens =>
            \E i \in DOMAIN st :
                LET t == Min(capacity * period,
                             tokens + (clock - last_time) * capacity)
                IN  /\ st[i] = "critical" /\ st'[i] = "posting"
                    /\ t >= period
                    /\ tokens' = t - period
                    /\ \A j \in DOMAIN st : j # i => st'[j] = st[j]]_vars

\* C1 witness: one caller has returned from acquire() with the bucket left
\* below one token while another caller sleeps for a refill.
C1_Witness ==
    /\ st[1] = "posting"
    /\ st[2] = "sleeping"
    /\ tokens < period
    /\ clock > 0

\* C2 as claimed: once the bucket has been emptied and a full period has
\* passed since, no window of length `period` holds more than `capacity`
\* returns of acquire().
C2_WindowLimit ==
    (drainedAt # Never /\ clock - period >= drainedAt[1]) => Len(grants) <= capacity

\* The indices of the working set.
RowIndices == {IndexOf(rows[k]) : k \in 1..Len(rows)}

NumCalling == Cardinality({i \in DOMAIN st : st[i] \in Calling})

\* C3: never more workers in the Calling state than concurrency slots, and
\* the free slots are exactly those not held by a worker in Calling: however
\* a worker leaves Calling, its slot is free again.
C3_ConcurrencyCap ==
    /\ NumCalling <= SemaphoreSlots
    /\ sem = SemaphoreSlots - NumCalling

\* C3 witness: every slot is taken, one of them by a worker that could
\* enter only because another had left Calling by an exception.
C3_Witness ==
    /\ NumCalling = SemaphoreSlots
    /\ Len(rows) > SemaphoreSlots
    /\ \A i \in DOMAIN st : st[i] # "pending"
    /\ \E i \in DOMAIN st : outcome[i] = "raised"

\* C4 as claimed: every task that has ended has produced a result carrying
\* its own index, only indices of the working set are stored, and once the
\* handler has ended the stored indices are exactly those of the working set.
C4_NoResultDropped ==
    /\ \A i \in DOMAIN st :
          st[i] \in {"finished", "raised"} =>
              taskResult[i] # None /\ taskResult[i][1] = IndexOf(i)
    /\ pc \in {"collecting", "done", "aborted"} => DOMAIN results \subseteq RowIndices
    /\ pc \in {"done", "aborted"} => DOMAIN results = RowIndices

\* C5 as claimed: whatever a row's lookup did, the row's task has returned an
\* EnrichmentResult (through the fallback path when the lookup failed) and
\* the handler has not been aborted.
C5_FailuresIsolated ==
    /\ pc # "aborted"
    /\ \A i \in DOMAIN st :
          outcome[i] # "none" => st[i] = "finished" /\ taskResult[i] # None
    /\ \A i \in DOMAIN st :
          outcome[i] \in {"failed", "timedout", "raised"} =>
              taskResult[i][3] = NoSource

\* C6 as claimed: a run that has ended has published exactly N snapshots,
\* each with processed one above the one before, the last one with
\* processed = total and percentage 100.00.
C6_ExactlyNSnapshots ==
    pc \in {"done", "aborted"} =>
        /\ Len(published) = Len(rows)
        /\ \A k \in 2..Len(published) :
              published[k].processed = published[k - 1].processed + 1
        /\ progress # Absent
        /\ progress[1].processed = progress[1].total
        /\ progress[1].percentage = 10000

\* C7: in every state of a run, every snapshot published so far has
\* processed <= total and the same total, processed never decreases from
\* one snapshot to the next, and the progress blob is the last of them.
C7_ProgressMonotone ==
    /\ \A k \in 1..Len(published) :
          /\ published[k].processed <= published[k].total
          /\ published[k].total = published[1].total
          /\ k > 1 => published[k].processed >= published[k - 1].processed
    /\ published # <<>> => progress = Blob(published[Len(published)])

\* C7 witness: a result has been published while the first row of the
\* working set is still outstanding: completion order is not submission order.
C7_Witness ==
    /\ Len(published) = 2
    /\ Len(rows) >= 2
    /\ IndexOf(rows[1]) \notin DOMAIN results
    /\ progress[1].processed = 1

\* C8 as claimed: a run over an empty working set leaves a progress blob
\* with percentage 100.
C8_EmptyIsComplete ==
    (pc = "done" /\ rows = <<>>) =>
        progress # Absent /\ progress[1].percentage = 10000

FilledRow == [comp |-> TRUE, pers |-> TRUE, fb |-> NaNCell]
BlankRow == [comp |-> FALSE, pers |-> FALSE, fb |-> NaNCell]

\* [("A","P1"), ("B","P2"), ("",""), ("",""), ("",""), ("C","P3")]
ScenarioSheet == <<FilledRow, FilledRow, BlankRow, BlankRow, BlankRow, FilledRow>>

\* The positions that end three blank rows in a row.
StopPoints(sh) ==
    {p \in 3..Len(sh) : IsBlank(sh[p - 2]) /\ IsBlank(sh[p - 1]) /\ IsBlank(sh[p])}

\* The last position the scan looks at.
ScanEnd(sh) ==
    IF StopPoints(sh) = {} THEN Len(sh)
    ELSE CHOOSE p \in StopPoints(sh) : \A q \in StopPoints(sh) : p <= q

\* C9 as claimed: the scenario yields the five rows of indices 0-4, and in
\* general the working set is every row up to the stop point, blank or not.
C9_KeepsBlankRows ==
    (pc # "idle" /\ colsOK) =>
        /\ sheet = ScenarioSheet => rows = <<1, 2, 3, 4, 5>>
        /\ rows = [k \in 1..ScanEnd(sheet) |-> k]

\* C9 as amended: the scenario yields the two rows of indices 0-1, and in
\* general the working set is, in sheet order, every non-blank row up to the
\* stop point; blank rows are counted but never selected.
C9_DropsBlankRows ==
    (pc # "idle" /\ colsOK) =>
        /\ sheet = ScenarioSheet => rows = <<1, 2>>
        /\ \A k \in 2..Len(rows) : rows[k - 1] < rows[k]
        /\ Range(rows) = {k \in 1..ScanEnd(sheet) : ~IsBlank(sheet[k])}

\* C9 witness: the scenario has been scanned; the rows of indices 0 and 1
\* are selected and the filled row behind the three blank ones is not.
C9_Witness ==
    /\ pc = "collecting"
    /\ sheet = ScenarioSheet
    /\ RowIndices = {0, 1}
    /\ st[6] = "none"

\* C10 as claimed: a row resolved through the fallback path carries its own
\* index and the no-source marker, its phone is all digits or empty, it is
\* the fallback text itself for "91234567", and it is empty for an empty
\* cell, for the text "nan" and for the column header.
C10_FallbackDigitsOrEmpty ==
    \A i \in DOMAIN st :
        (st[i] = "finished" /\ outcome[i] \in {"absent", "failed", "timedout"}) =>
            LET r == taskResult[i]
                fb == sheet[i].fb
            IN  /\ r[1] = IndexOf(i)
                /\ r[3] = NoSource
                /\ AllDigits(r[2])
                /\ fb = StrCell(Present) => r[2] = Present
                /\ fb \in {NaNCell, StrCell(NanText), StrCell(Header)} => r[2] = <<>>

\* C11: no row ever has more than one call to the lookup service started
\* for it, a call is started only for a row whose worker has consumed a
\* token, and a row that timed out without a token has no call at all.
C11_OneCallAfterToken ==
    \A i \in DOMAIN st :
        /\ calls[i] <= 1
        /\ calls[i] <= took[i]
        /\ (outcome[i] = "timedout" /\ took[i] = 0) => calls[i] = 0
        /\ st[i] \in {"none", "pending"} => calls[i] = 0

\* C11 witness: one row timed out while it waited for a token and has no
\* call; another consumed a token, made its one call, and the call failed.
C11_Witness ==
    \E i, j \in DOMAIN st :
        /\ outcome[i] = "timedout" /\ took[i] = 0 /\ calls[i] = 0
        /\ outcome[j] = "failed" /\ took[j] = 1 /\ calls[j] = 1

\* C12: a sheet without the required columns makes the run fail at its
\* start, and no step of such a run publishes a snapshot, consumes a token,
\* starts a call, schedules a row, or writes or deletes the results blob.
C12_MissingColumnTouchesNothing ==
    /\ [](~colsOK /\ pc # "idle" => pc = "failed")
    /\ [][~colsOK => UNCHANGED <<progress, published, resultsBlob, results,
                                 rows, st, sem, tokens, last_time, lock,
                                 calls, took, completed>>]_vars

\* C12 witness: a sheet with rows but without the columns has failed, and
\* time has passed since.
C12_Witness ==
    /\ ~colsOK /\ pc = "failed" /\ Len(sheet) = MaxRows /\ clock = MaxTime
    /\ progress = Absent /\ resultsBlob = Absent

SplitNumber == <<"+","4","7"," ","9","1"," ","2","3"," ","4","5"," ","6","7">>
JoinedNumber == <<"+","4","7"," ","9","1","2","3","4","5","6","7">>
NoNumber == <<"c","a","l","l"," ","m","e">>
TheDigits == <<"9","1","2","3","4","5","6","7">>

\* Positions of `text` at which eight digits in a row start and are followed
\* by the end of the text or by a character that is neither a letter, a
\* digit nor an underscore.
Windows(text) ==
    {p \in 1..Len(text) :
        /\ p + 7 <= Len(text)
        /\ \A k \in p..(p + 7) : text[k] \in Range(DigitChars)
        /\ p + 8 <= Len(text) => text[p + 8] \notin WordChars}

\* C13 as claimed: the digits of "+47 91 23 45 67" are joined into
\* "91234567", and "call me" gives nothing.
C13_JoinsSplitDigits ==
    extracted # <<>> =>
        /\ answer = SplitNumber => extracted[1] = TheDigits
        /\ answer = NoNumber => extracted[1] = None

\* C13 amended: extract_phone returns eight digits that stand in a row in
\* the text and end at a word boundary, and nothing when the text has no
\* such run; so "+47 91234567" gives "91234567", while "+47 91 23 45 67"
\* and "call me" give nothing.
C13_ContiguousDigitsOnly ==
    extracted # <<>> =>
        /\ extracted[1] # None =>
              \E p \in Windows(answer) : extracted[1] = SubSeq(answer, p, p + 7)
        /\ extracted[1] = None <=> (answer = None \/ Windows(answer) = {})
        /\ answer = JoinedNumber => extracted[1] = TheDigits
        /\ answer = SplitNumber => extracted[1] = None
        /\ answer = NoNumber => extracted[1] = None

\* C13 witness: the split number has been through extract_phone.
C13_Witness == answer = SplitNumber /\ extracted = <<None>>

\* C14 as claimed: once every worker of a started run has ended and the
\* collector has nothing left to take, every selected row is resolved and
\* the snapshot with processed = total has been published.
C14_RunCompletes ==
    (/\ pc \in {"collecting", "aborted", "done"}
     /\ \A i \in Range(rows) : st[i] \in {"finished", "raised"}
     /\ pc = "collecting" => completed = <<>>)
    => /\ \A i \in Range(rows) : st[i] = "finished" /\ taskResult[i] # None
       /\ progress # Absent
       /\ progress[1].processed = Len(rows)
       /\ progress[1].total = Len(rows)

\* C15: the step in which a row times out leaves every other row's state,
\* outcome and result as they were, leaves the limiter's tokens, refill
\* time and lock as they were (a consumed token is not given back, and the
\* lock is not held by the row), and ends the row with its fallback result.
C15_TimeoutTouchesOnlyItsRow ==
    [][\A i \in DOMAIN st :
          (outcome[i] # "timedout" /\ outcome'[i] = "timedout") =>
              /\ \A j \in DOMAIN st \ {i} :
                    /\ st'[j] = st[j]
                    /\ outcome'[j] = outcome[j]
                    /\ taskResult'[j] = taskResult[j]
                    /\ took'[j] = took[j]
              /\ tokens' = tokens
              /\ last_time' = last_time
              /\ lock' = lock
              /\ lock' # i
              /\ took'[i] = took[i]
              /\ st'[i] = "finished"
              /\ taskResult'[i] # None
              /\ taskResult'[i][1] = IndexOf(i)
              /\ taskResult'[i][2] = normalize_phone(FallbackNum(sheet[i].fb))
              /\ taskResult'[i][3] = NoSource]_vars

\* C15 witness: a row has timed out after it had consumed a token, the
\* token is still gone, and a sibling is waiting for its slot.
C15_Witness ==
    \E i, j \in DOMAIN st :
        /\ i # j
        /\ outcome[i] = "timedout" /\ took[i] = 1
        /\ st[j] = "pending"
        /\ tokens < capacity * period
        /\ lock = NoOne

\* C16: at most one caller is inside the refill/check/consume section and
\* it is the holder of the lock; a sleeping caller never holds the lock; a
\* caller that slept goes back to wait for the lock, and acquire() returns
\* only from inside the section, to the holder, when the refilled bucket
\* had a whole token, which that step takes.
C16_ExclusiveCheckAndRetry ==
    /\ [](/\ Cardinality({i \in DOMAIN st : st[i] = "critical"}) <= 1
          /\ \A i \in DOMAIN st : st[i] = "critical" <=> lock = i
          /\ \A i \in DOMAIN st : st[i] = "sleeping" => lock # i)
    /\ [][\A i \in DOMAIN st :
            /\ st[i] = "sleeping" => st'[i] \in {"sleeping", "acquiring", "idle"}
            /\ (st[i] # "posting" /\ st'[i] = "posting") =>
                  LET refilled == Min(capacity * period,
                                      tokens + (clock - last_time) * capacity)
                  IN  /\ st[i] = "critical" /\ lock = i /\ lock' = NoOne
                      /\ refilled >= period
                      /\ tokens' = refilled - period]_vars

\* C16 witness: after the bucket was drained, one caller is inside the
\* section and the other waits for the lock, and the refill since then is
\* worth one token but not two.
C16_Witness ==
    \E i, j \in DOMAIN st :
        /\ st[i] = "critical" /\ lock = i
        /\ st[j] = "acquiring"
        /\ drainedAt # Never /\ clock > drainedAt[1]
        /\ tokens < period
        /\ tokens + (clock - last_time) * capacity >= period
        /\ tokens + (clock - last_time) * capacity < 2 * period

CallingOf(ws) == Cardinality({i \in ws : st[i] \in Calling})

\* C17 as claimed: a worker waiting for a slot can enter Calling whenever
\* fewer workers of its own run than the cap are in Calling, however many
\* workers of the other run are.
C17_RunsShareOnlyTokens ==
    /\ \A i \in Own :
          (st[i] = "pending" /\ CallingOf(Own) < SemaphoreSlots)
              => ENABLED Enter(i)
    /\ \A j \in Others :
          (st[j] = "pending" /\ CallingOf(Others) < SemaphoreSlots)
              => ENABLED Enter(j)

\* C17 amended: the slots are shared as the tokens are.  A waiting worker
\* of either run can enter Calling exactly when the workers of both runs
\* in Calling are fewer than the cap, and a step of a worker of the other
\* run changes nothing of this run: not its sheet, working set, progress,
\* results or finished tasks, nor any of its workers.
C17_RunsShareTokensAndSlots ==
    /\ [](/\ CallingOf(Own) + CallingOf(Others) <= SemaphoreSlots
          /\ sem = SemaphoreSlots - (CallingOf(Own) + CallingOf(Others))
          /\ \A i \in DOMAIN st :
                st[i] = "pending" =>
                    (ENABLED Enter(i) <=>
                        CallingOf(Own) + CallingOf(Others) < SemaphoreSlots))
    /\ [][(\E j \in Others : st'[j] # st[j]) =>
            /\ UNCHANGED <<runVars, completed>>
            /\ \A i \in Own : /\ st'[i] = st[i]
                              /\ outcome'[i] = outcome[i]
                              /\ taskResult'[i] = taskResult[i]
                              /\ deadline'[i] = deadline[i]
                              /\ wake'[i] = wake[i]]_vars

\* C17 witness: a worker of the run waits for a slot while no worker of its
\* own run is in Calling: the workers of the other run hold every slot.
C17_Witness ==
    /\ pc = "collecting"
    /\ \E i \in Own : st[i] = "pending"
    /\ CallingOf(Own) = 0
    /\ CallingOf(Others) = SemaphoreSlots
    /\ sem = 0

\* C18 as claimed: while an accepted upload's run has not published its
\* first snapshot (the trigger has not run yet, or the run failed on the
\* columns), no progress blob exists under the name.
C18_AbsentUntilFirstSnapshot ==
    (pc \in {"idle", "failed"} /\ published = <<>>) => progress = Absent

PersonOnlyRow == [comp |-> FALSE, pers |-> TRUE, fb |-> NaNCell]

\* A sheet on which the count is reset once and the scan then stops short of
\* a filled row.
ResetSheet == <<BlankRow, PersonOnlyRow, BlankRow, BlankRow, BlankRow, FilledRow>>

BothEmpty(rec) == rec.comp = FALSE /\ rec.pers = FALSE

\* The positions at which a run of three records with both fields empty is
\* complete.
RunsOfThree(sh) ==
    {p \in 1..Len(sh) :
        p >= 3 /\ \A q \in (p - 2)..p : BothEmpty(sh[q])}

\* C19: no record behind the first run of three both-empty records is
\* selected, every record before it with a company or a person is selected
\* (so a record with either field resets the count, and without such a run
\* the scan reaches the end of the sheet), and the working set is in sheet
\* order.
C19_EarlyStop ==
    (pc # "idle" /\ colsOK) =>
        /\ \A k \in Range(rows) : \A p \in RunsOfThree(sheet) : k < p
        /\ \A k \in 1..Len(sheet) :
              (/\ ~BothEmpty(sheet[k])
               /\ \A p \in RunsOfThree(sheet) : k < p) => k \in Range(rows)
        /\ \A k \in Range(rows) : ~BothEmpty(sheet[k])
        /\ \A a, b \in 1..Len(rows) : a < b => rows[a] < rows[b]

\* C19 witness: a record with only a person reset the count after one empty
\* record; the scan stopped at the fifth record and the filled sixth record
\* is not selected.
C19_Witness ==
    /\ pc = "collecting"
    /\ sheet = ResetSheet
    /\ rows = <<2>>
    /\ st[2] = "pending"
    /\ st[6] = "none"

\* C20: whenever the results blob exists the run has ended normally, every
\* selected row has its result in it, and the progress blob shows
\* processed = total; an aborted or failed run has no results blob.
C20_ResultsAfterFinalSnapshot ==
    /\ resultsBlob # Absent =>
          /\ pc = "done"
          /\ DOMAIN results = RowIndices
          /\ resultsBlob = Blob(results)
          /\ progress # Absent
          /\ progress[1].processed = progress[1].total
          /\ progress[1].total = Len(rows)
          /\ published[Len(published)] = progress[1]
    /\ pc \in {"aborted", "failed"} => resultsBlob = Absent

\* C20 witness: a run over a full working set has written its results blob,
\* one of the rows through the fallback path after a timeout.
C20_Witness ==
    /\ resultsBlob # Absent
    /\ Len(rows) = MaxRows
    /\ \E i \in Range(rows) : outcome[i] = "timedout"

====
